---------------------------- MODULE Spec2Model ----------------------------
(***************************************************************************)
(* Model of the ParaView python driver (src/driver.py) and of its          *)
(* installer (src/install.py).                                             *)
(*                                                                         *)
(* Strings are sequences of tokens.  The tokens "/" and "." are the path   *)
(* separator and the dot; every other token ("a", "pdf", "mesh_ParaView",  *)
(* ...) stands for a run of characters holding neither, and is treated as  *)
(* one letter of the alphabet.  Python's None is the optional value None;  *)
(* a string s is Some(s).                                                  *)
(***************************************************************************)
EXTENDS Integers, Sequences, FiniteSets, TLC

VARIABLES
    cwd,      \* the process's working directory (os.getcwd())
    drv,      \* the ParaViewDriver instance's fields
    eng,      \* the engine session: connection, call log, view, filter, LUT
    dirs,     \* the directories that exist on the file system
    fds,      \* the process's descriptor table: fd -> file it refers to
    phase,    \* position of the `with ParaViewDriver(...)` statement
    calls,    \* number of operations called on the instance
    last,     \* what the last operation was given and what it did
    scope,    \* the IgnoreOutput object being stepped through (SpecFd)
    inst      \* the installer's file systems and what it copied (SpecInstall)

vars == <<cwd, drv, eng, dirs, fds, phase, calls, last, scope, inst>>

-----------------------------------------------------------------------------
(* Python values *)

None == [some |-> FALSE, val |-> <<>>]
Some(s) == [some |-> TRUE, val |-> s]

\* truth value of an optional string: None and '' are falsy
Truthy(o) == o.some /\ o.val # <<>>

\* Python's `a or b`
PyOr(a, b) == IF Truthy(a) THEN a ELSE b

-----------------------------------------------------------------------------
(* posixpath, as imported by the driver *)

SLASH == "/"
DOT == "."

curdir == <<DOT>>

isabs(s) == Len(s) > 0 /\ s[1] = SLASH

\* str.rfind: the last index of token c in s, 0 when absent
RECURSIVE rfind(_, _)
rfind(s, c) ==
    IF s = <<>> THEN 0
    ELSE IF s[Len(s)] = c THEN Len(s)
    ELSE rfind(SubSeq(s, 1, Len(s) - 1), c)

\* `c in s`
Contains(s, c) == \E i \in 1..Len(s) : s[i] = c

AllSlashes(s) == \A i \in 1..Len(s) : s[i] = SLASH

RECURSIVE rstripSlash(_)
rstripSlash(s) ==
    IF s # <<>> /\ s[Len(s)] = SLASH
    THEN rstripSlash(SubSeq(s, 1, Len(s) - 1))
    ELSE s

join(a, b) ==
    IF isabs(b) THEN b
    ELSE IF a = <<>> \/ a[Len(a)] = SLASH THEN a \o b
    ELSE a \o <<SLASH>> \o b

dirname(p) ==
    LET head == SubSeq(p, 1, rfind(p, SLASH))
    IN  IF head # <<>> /\ ~AllSlashes(head) THEN rstripSlash(head) ELSE head

basename(p) == SubSeq(p, rfind(p, SLASH) + 1, Len(p))

\* str.split('/'): the components between the separators
RECURSIVE split(_)
split(p) ==
    LET i == rfind(p, SLASH)
    IN  IF i = 0 THEN <<p>>
        ELSE Append(split(SubSeq(p, 1, i - 1)), SubSeq(p, i + 1, Len(p)))

DOTDOT == <<DOT, DOT>>

\* the loop of normpath over the components
RECURSIVE normComps(_, _, _)
normComps(comps, new, initial) ==
    IF comps = <<>> THEN new
    ELSE LET comp == Head(comps)
             rest == Tail(comps)
         IN  IF comp = <<>> \/ comp = <<DOT>> THEN normComps(rest, new, initial)
             ELSE IF comp # DOTDOT
                     \/ (initial = 0 /\ new = <<>>)
                     \/ (new # <<>> /\ new[Len(new)] = DOTDOT)
                  THEN normComps(rest, Append(new, comp), initial)
             ELSE IF new # <<>>
                  THEN normComps(rest, SubSeq(new, 1, Len(new) - 1), initial)
             ELSE normComps(rest, new, initial)

\* '/'.join(comps)
RECURSIVE joinComps(_)
joinComps(comps) ==
    IF comps = <<>> THEN <<>>
    ELSE IF Len(comps) = 1 THEN comps[1]
    ELSE comps[1] \o <<SLASH>> \o joinComps(Tail(comps))

normpath(p) ==
    IF p = <<>> THEN <<DOT>>
    ELSE LET initial ==
                 IF ~isabs(p) THEN 0
                 ELSE IF Len(p) >= 2 /\ p[2] = SLASH /\ ~(Len(p) >= 3 /\ p[3] = SLASH)
                      THEN 2
                 ELSE 1
             body == joinComps(normComps(split(p), <<>>, initial))
             full == [i \in 1..initial |-> SLASH] \o body
         IN  IF full = <<>> THEN <<DOT>> ELSE full

abspath(p, wd) == normpath(IF isabs(p) THEN p ELSE join(wd, p))

-----------------------------------------------------------------------------
(* The file system: the set of existing directories, each a normalized     *)
(* absolute path.  No symbolic links.                                      *)

Parent(d) == dirname(d)

\* Resolve the components of a path from directory cur, creating the missing
\* ones when create holds: [ok, cur, ds].
RECURSIVE Walk(_, _, _, _)
Walk(comps, cur, ds, create) ==
    IF comps = <<>> THEN [ok |-> TRUE, cur |-> cur, ds |-> ds]
    ELSE LET comp == Head(comps)
             rest == Tail(comps)
         IN  IF comp = <<>> \/ comp = <<DOT>> THEN Walk(rest, cur, ds, create)
             ELSE IF comp = DOTDOT THEN Walk(rest, Parent(cur), ds, create)
             ELSE LET nxt == join(cur, comp)
                  IN  IF nxt \in ds THEN Walk(rest, nxt, ds, create)
                      ELSE IF create THEN Walk(rest, nxt, ds \cup {nxt}, create)
                      ELSE [ok |-> FALSE, cur |-> cur, ds |-> ds]

WalkFrom(p, wd) == IF isabs(p) THEN <<SLASH>> ELSE wd

\* os.makedirs(p, exist_ok=True): the directories afterwards
makedirs(p, wd, ds) == Walk(split(p), WalkFrom(p, wd), ds, TRUE).ds

\* whether p names an existing directory
isdir(p, wd, ds) == Walk(split(p), WalkFrom(p, wd), ds, FALSE).ok

\* a directory and all its ancestors
RECURSIVE Ancestors(_)
Ancestors(d) == IF Parent(d) = d THEN {d} ELSE {d} \cup Ancestors(Parent(d))

-----------------------------------------------------------------------------
(* The descriptor table and class IgnoreOutput *)

\* size of the descriptor table (the process's open-file limit)
MaxFd == 8

CLOSED == "closed"
DEVNULL == "null"

Fds == 0..(MaxFd - 1)

Free(f) == {n \in Fds : f[n] = CLOSED}
HasFree(f) == Free(f) # {}
LowestFree(f) == CHOOSE n \in Free(f) : \A m \in Free(f) : n <= m

\* os.dup2(a, b), a open
dup2(f, a, b) == [f EXCEPT ![b] = f[a]]

\* os.close(n)
close(f, n) == [f EXCEPT ![n] = CLOSED]

NoObj == [id_n |-> 0, devnull |-> 0, newstderr |-> 0]

\* IgnoreOutput.__init__(id_n): open the null device, duplicate id_n.  Either
\* call raises OSError when the table is full, dup also when id_n is closed.
IgnoreOutput_init(f, id_n) ==
    IF ~HasFree(f) THEN [ok |-> FALSE, fds |-> f, obj |-> NoObj]
    ELSE LET dn == LowestFree(f)
             f1 == [f EXCEPT ![dn] = DEVNULL]
         IN  IF f1[id_n] = CLOSED \/ ~HasFree(f1)
             THEN [ok |-> FALSE, fds |-> f1, obj |-> NoObj]
             ELSE LET ns == LowestFree(f1)
                  IN  [ok |-> TRUE, fds |-> [f1 EXCEPT ![ns] = f1[id_n]],
                       obj |-> [id_n |-> id_n, devnull |-> dn, newstderr |-> ns]]

\* IgnoreOutput.__enter__
IgnoreOutput_enter(f, obj) == close(dup2(f, obj.devnull, obj.id_n), obj.devnull)

\* __exit__ restoring nothing
IgnoreOutput_exit_nothing(f, obj) == f

\* IgnoreOutput.__exit__
IgnoreOutput_exit(f, obj) == dup2(f, obj.newstderr, obj.id_n)

-----------------------------------------------------------------------------
(* class ParaViewDriver: class attributes *)

filetype_out_default == <<"pdf">>
print_filenames == [mesh |-> <<"mesh_ParaView">>,
                    quality |-> <<"mesh_quality_ParaView">>,
                    distribution |-> <<"mesh_quality_distribution">>]
measure_quad_default == "Skew"
measure_triangle_default == "Radius Ratio"
color_bar_preset_default == "Blue Orange (divergent)"

\* the file types _print exports through ExportView
VectorTypes == {<<"pdf">>, <<"eps">>, <<"ps">>, <<"svg">>}

\* the file formats pyplot.savefig can write
SavefigFormats == VectorTypes \cup {<<"png">>}

STDERR == 2

-----------------------------------------------------------------------------
(* The engine's color maps.  A transfer function is the sequence of the    *)
(* colors of its control points; inverting it reverses the sequence.       *)

Preset(name) ==
    IF name = "Blue Orange (divergent)" THEN <<"blue", "white", "orange">>
    ELSE IF name = "Viridis (matplotlib)" THEN <<"purple", "green", "yellow">>
    ELSE <<"coolblue", "grey", "warmred">>

Reverse(q) == [i \in 1..Len(q) |-> q[Len(q) + 1 - i]]

InvertTransferFunction(lut) == Reverse(lut)

NoFilter == [quad |-> "", tri |-> ""]

-----------------------------------------------------------------------------
(* ParaViewDriver: construction and path resolution *)

ParaViewDriver_init(mesh_flow_src, out_filetype, out_dir) ==
    [mesh_flow_src |-> mesh_flow_src,
     filetype |-> PyOr(out_filetype, Some(filetype_out_default)).val,
     out_dir |-> PyOr(out_dir, Some(curdir)).val,
     print_filename |-> None,
     \* not a field of the instance: the out_dir argument it was built with
     ctor_out_dir |-> out_dir,
     measure_quad |-> measure_quad_default,
     measure_triangle |-> measure_triangle_default]

\* _out_dir preferring the instance's directory to the argument
_out_dir_instance_first(d, out_dir) ==
    abspath(PyOr(PyOr(Some(d.out_dir), out_dir),
                 Some(dirname(d.mesh_flow_src))).val, cwd)

_out_dir(d, out_dir) ==
    abspath(PyOr(PyOr(out_dir, Some(d.out_dir)),
                 Some(dirname(d.mesh_flow_src))).val, cwd)

_make_abs_path(d, filename_out, out_dir) ==
    IF ~isabs(filename_out) THEN join(_out_dir(d, out_dir), filename_out)
    ELSE filename_out

_set_print_filename(d, file_out, out_dir) ==
    _make_abs_path(d, file_out, out_dir) \o <<DOT>> \o d.filetype

-----------------------------------------------------------------------------
(* ParaViewDriver._print: what it leaves behind.  export_ok tells whether   *)
(* the engine's export call returns or raises.                             *)

_print(d, ds, f, export_ok) ==
    LET pf == d.print_filename.val
        ds1 == makedirs(dirname(pf), cwd, ds)
    IN  IF d.filetype \in VectorTypes
        THEN LET io == IgnoreOutput_init(f, STDERR)
             IN  IF ~io.ok
                 THEN [ok |-> FALSE, dirs |-> ds1, fds |-> io.fds,
                       exported |-> FALSE, err |-> f[STDERR]]
                 ELSE LET inside == IgnoreOutput_enter(io.fds, io.obj)
                      IN  [ok |-> export_ok, dirs |-> ds1,
                           fds |-> IgnoreOutput_exit(inside, io.obj),
                           exported |-> export_ok, err |-> inside[STDERR]]
        ELSE [ok |-> export_ok, dirs |-> ds1, fds |-> f,
              exported |-> export_ok, err |-> f[STDERR]]

-----------------------------------------------------------------------------
(* Keyword arguments: a set of <<key, value>> pairs, one per key *)

HasKey(kw, k) == \E e \in kw : e[1] = k
get(kw, k, default) ==
    IF HasKey(kw, k) THEN (CHOOSE e \in kw : e[1] = k)[2] ELSE default

\* _setup_mesh_quality whose 'triangle' lookup falls back to the measure the
\* call began with, undoing a 'tri' override
_setup_mesh_quality_stale(d, measure) ==
    LET q == IF measure # {} THEN get(measure, "quad", d.measure_quad)
             ELSE d.measure_quad
        t2 == IF measure # {} THEN get(measure, "triangle", d.measure_triangle)
              ELSE d.measure_triangle
    IN  [drv |-> [d EXCEPT !.measure_quad = q, !.measure_triangle = t2],
         filter |-> [quad |-> q, tri |-> t2]]

\* ParaViewDriver._setup_mesh_quality: the instance and the filter built
_setup_mesh_quality(d, measure) ==
    LET q == IF measure # {} THEN get(measure, "quad", d.measure_quad)
             ELSE d.measure_quad
        t1 == IF measure # {} THEN get(measure, "tri", d.measure_triangle)
              ELSE d.measure_triangle
        t2 == IF measure # {} THEN get(measure, "triangle", t1) ELSE t1
    IN  [drv |-> [d EXCEPT !.measure_quad = q, !.measure_triangle = t2],
         filter |-> [quad |-> q, tri |-> t2]]

-----------------------------------------------------------------------------
(* Bounds and input sets of the driver's specifications *)

\* operations called on one driver instance
MaxCalls == 2

Cwds == {<<SLASH, "w">>, <<SLASH>>}
MeshSrcs == {<<"f">>, <<SLASH, "m", SLASH, "f">>}
OutFiletypes == {None, Some(<<"png">>)}
CtorOutDirs == {None, Some(<<SLASH, "c">>)}

\* names of view prints: absent, empty, plain, in a sub-directory, absolute,
\* under "../"
PrintNames == {None, Some(<<>>), Some(<<"a">>), Some(<<"s", SLASH, "a">>),
               Some(<<SLASH, "t", SLASH, "a">>),
               Some(<<DOT, DOT, SLASH, "a">>)}
\* names of plots: absent, empty, plain, with an extension, under "./", in a
\* dotted directory, in a sub-directory with an extension, absolute
PlotNames == {None, Some(<<>>), Some(<<"a">>), Some(<<"a", DOT, "svg">>),
              Some(<<DOT, SLASH, "a">>), Some(<<"s", DOT, "d", SLASH, "a">>),
              Some(<<"s", SLASH, "a", DOT, "png">>),
              Some(<<SLASH, "t", SLASH, "a", DOT, "svg">>)}
OutDirArgs == {None, Some(<<SLASH, "o">>), Some(<<"o">>)}
Fmts == {<<"pdf">>, <<"png">>}

\* keyword dictionaries: any choice of at most one value per key
KwPairs == {<<"quad", "Area">>, <<"quad", "Edge Ratio">>, <<"tri", "Area">>,
            <<"triangle", "Edge Ratio">>, <<"other", "x">>}
Kwargs == {kw \in SUBSET KwPairs :
             \A e1 \in kw, e2 \in kw : e1[1] = e2[1] => e1 = e2}
PresetArgs == {"", "Viridis (matplotlib)"}

EnterOutcomes == {"ok", "Connect", "OpenDataFile", "GetActiveViewOrCreate"}

StdFds == [n \in Fds |-> IF n = 0 THEN "stdin" ELSE IF n = 1 THEN "stdout"
                         ELSE IF n = 2 THEN "stderr" ELSE CLOSED]

NoLast == [op |-> "none", file_out |-> None, out_dir |-> None,
           filename |-> None, fmt |-> <<>>, measure |-> {}, invert |-> FALSE,
           preset |-> "", reported |-> <<>>, path |-> <<>>,
           export_lut |-> <<>>, inversions |-> 0, save_fmt |-> <<>>,
           fname |-> <<>>, dir_ok |-> FALSE, ok |-> TRUE,
           before |-> NoFilter, filter |-> NoFilter, err |-> ""]

NoEngine == [connected |-> FALSE, log |-> <<>>, meshShown |-> FALSE,
             qualityShown |-> {}, bar |-> FALSE, lut |-> Preset(""),
             useLog |-> FALSE, nfilters |-> 0, filter |-> NoFilter]

\* state is the position of a `with IgnoreOutput(id_n)` statement; before,
\* sink and how are not fields of the object: what id_n referred to when the
\* object was built, what received the last write to id_n, how the body ended
NoScope == [state |-> "none", obj |-> NoObj, before |-> CLOSED,
            sink |-> "", how |-> "", n |-> 0]
NoInst == [state |-> "none"]

\* a driver built in some working directory, before its scope is entered
DriverInit(cwds, srcs, fts, ods) ==
    /\ cwd \in cwds
    /\ \E src \in srcs, ft \in fts, od \in ods :
          /\ drv = ParaViewDriver_init(src, ft, od)
          \* the input file exists, and so does the working directory
          /\ dirs = Ancestors(cwd) \cup Ancestors(abspath(dirname(src), cwd))
    /\ eng = NoEngine
    /\ fds = StdFds
    /\ phase = "new"
    /\ calls = 0
    /\ last = NoLast
    /\ scope = NoScope
    /\ inst = NoInst

-----------------------------------------------------------------------------
(* ParaViewDriver: the operations.  A `with` statement calls __enter__,    *)
(* runs its body, and calls __exit__ when the body is left, normally or    *)
(* by an exception; it calls no __exit__ when __enter__ itself raises.     *)

EntryCalls == <<"Connect", "_DisableFirstRenderCameraReset", "OpenDataFile",
                "GetActiveViewOrCreate">>

\* the calls of __enter__ that return before the one named by outcome raises
RECURSIVE Before(_, _)
Before(callseq, outcome) ==
    IF callseq = <<>> \/ Head(callseq) = outcome THEN <<>>
    ELSE <<Head(callseq)>> \o Before(Tail(callseq), outcome)

WithAfterEnter(outcome) == IF outcome = "ok" THEN "entered" ELSE "left"

ParaViewDriver_enter(outcome) ==
    /\ phase = "new"
    /\ LET done == Before(EntryCalls, outcome)
       IN  eng' = [eng EXCEPT !.log = done,
                              !.connected = (Len(done) >= 1)]
    /\ phase' = WithAfterEnter(outcome)
    /\ UNCHANGED <<cwd, drv, dirs, fds, calls, last, scope, inst>>

ParaViewDriver_exit ==
    /\ phase \in {"entered", "raised"}
    /\ eng' = [eng EXCEPT !.connected = FALSE,
                          !.log = Append(@, "Disconnect")]
    /\ phase' = "left"
    /\ UNCHANGED <<cwd, drv, dirs, fds, calls, last, scope, inst>>

AfterCall(ok) == IF ok THEN "entered" ELSE "raised"

print_mesh_wireframe(file_out, out_dir, export_ok) ==
    /\ phase = "entered"
    /\ calls < MaxCalls
    /\ LET name == PyOr(file_out, Some(print_filenames.mesh)).val
           d1 == [drv EXCEPT !.print_filename =
                      Some(_set_print_filename(drv, name, out_dir))]
           pr == _print(d1, dirs, fds, export_ok)
       IN  /\ drv' = d1
           /\ dirs' = pr.dirs
           /\ fds' = pr.fds
           \* Show(...), then Hide(...) once _print has returned
           /\ eng' = [eng EXCEPT !.meshShown = ~pr.ok]
           /\ phase' = AfterCall(pr.ok)
           /\ last' = [NoLast EXCEPT !.op = "print_mesh_wireframe",
                          !.file_out = file_out, !.out_dir = out_dir,
                          !.reported = _out_dir(drv, out_dir),
                          !.path = d1.print_filename.val,
                          !.ok = pr.ok, !.err = pr.err]
    /\ calls' = calls + 1
    /\ UNCHANGED <<cwd, scope, inst>>

\* print_quality without its second inversion
Reinvert_skipped(lut, invert_colors) == lut

\* lines 231-233: the transfer function is inverted back after the export
Reinvert(lut, invert_colors) ==
    IF invert_colors THEN InvertTransferFunction(lut) ELSE lut

print_quality(file_out, color_bar_preset, out_dir, log_scale, invert_colors, measure, export_ok) ==
    /\ phase = "entered"
    /\ calls < MaxCalls
    /\ LET name == PyOr(file_out, Some(print_filenames.quality)).val
           d1 == [drv EXCEPT !.print_filename =
                      Some(_set_print_filename(drv, name, None))]
           sm == _setup_mesh_quality(d1, measure)
           n == eng.nfilters + 1
           applied == Preset(IF color_bar_preset = ""
                             THEN color_bar_preset_default
                             ELSE color_bar_preset)
           exportLut == IF invert_colors THEN InvertTransferFunction(applied)
                        ELSE applied
           pr == _print(sm.drv, dirs, fds, export_ok)
           shown == IF pr.ok THEN eng.qualityShown
                    ELSE eng.qualityShown \cup {n}
       IN  /\ drv' = sm.drv
           /\ dirs' = pr.dirs
           /\ fds' = pr.fds
           /\ eng' = [eng EXCEPT
                        !.nfilters = n,
                        !.filter = sm.filter,
                        !.useLog = log_scale,
                        !.qualityShown = shown,
                        \* HideScalarBarIfNotNeeded
                        !.bar = (shown # {}),
                        !.lut = IF pr.ok THEN Reinvert(exportLut, invert_colors)
                                ELSE exportLut]
           /\ phase' = AfterCall(pr.ok)
           /\ last' = [NoLast EXCEPT !.op = "print_quality",
                          !.file_out = file_out, !.out_dir = out_dir,
                          !.measure = measure, !.invert = invert_colors,
                          !.preset = color_bar_preset,
                          !.reported = _out_dir(drv, out_dir),
                          !.path = d1.print_filename.val,
                          !.export_lut = exportLut,
                          !.inversions = IF ~invert_colors THEN 0
                                         ELSE IF pr.ok THEN 2 ELSE 1,
                          !.before = [quad |-> drv.measure_quad,
                                      tri |-> drv.measure_triangle],
                          !.filter = sm.filter,
                          !.ok = pr.ok, !.err = pr.err]
    /\ calls' = calls + 1
    /\ UNCHANGED <<cwd, scope, inst>>

get_quality(measure_kwds) ==
    /\ phase = "entered"
    /\ calls < MaxCalls
    /\ LET sm == _setup_mesh_quality(drv, measure_kwds)
       IN  /\ drv' = sm.drv
           /\ eng' = [eng EXCEPT !.nfilters = @ + 1, !.filter = sm.filter]
           /\ last' = [NoLast EXCEPT !.op = "get_quality",
                          !.measure = measure_kwds,
                          !.before = [quad |-> drv.measure_quad,
                                      tri |-> drv.measure_triangle],
                          !.filter = sm.filter]
    /\ calls' = calls + 1
    /\ UNCHANGED <<cwd, dirs, fds, phase, scope, inst>>

\* filename.rsplit('.', 1)[-1]
AfterLastDot(s) == SubSeq(s, rfind(s, DOT) + 1, Len(s))

\* lines 353-360: the file name and the format of the distribution plot
PlotFilename(d, filename, fmt) ==
    IF filename.some
    THEN IF Contains(filename.val, DOT)
         THEN [name |-> filename.val, fmt |-> AfterLastDot(filename.val)]
         ELSE [name |-> filename.val \o <<DOT>> \o fmt, fmt |-> fmt]
    ELSE [name |-> print_filenames.distribution \o <<"_", d.measure_quad, DOT>>
                   \o fmt,
          fmt |-> fmt]

print_quality_distribution(has_qoi, fmt, filename, out_dir, quality_kwds) ==
    /\ phase = "entered"
    /\ calls < MaxCalls
    /\ LET sm == IF has_qoi THEN [drv |-> drv, filter |-> eng.filter]
                 ELSE _setup_mesh_quality(drv, quality_kwds)
           pf == PlotFilename(sm.drv, filename, fmt)
           ds1 == makedirs(_out_dir(sm.drv, out_dir), cwd, dirs)
           path == _make_abs_path(sm.drv, pf.name, out_dir)
           dir_ok == isdir(dirname(path), cwd, ds1)
           \* savefig raises for a missing directory or an unknown format
           ok == dir_ok /\ pf.fmt \in SavefigFormats
       IN  /\ drv' = sm.drv
           /\ eng' = IF has_qoi THEN eng
                     ELSE [eng EXCEPT !.nfilters = @ + 1, !.filter = sm.filter]
           /\ dirs' = ds1
           /\ phase' = AfterCall(ok)
           /\ last' = [NoLast EXCEPT !.op = "print_quality_distribution",
                          !.filename = filename, !.out_dir = out_dir,
                          !.fmt = fmt, !.measure = quality_kwds,
                          !.reported = _out_dir(sm.drv, out_dir),
                          !.fname = pf.name, !.path = path,
                          !.save_fmt = pf.fmt, !.dir_ok = dir_ok,
                          !.before = [quad |-> drv.measure_quad,
                                      tri |-> drv.measure_triangle],
                          !.filter = sm.filter,
                          !.ok = ok]
    /\ calls' = calls + 1
    /\ UNCHANGED <<cwd, fds, scope, inst>>

-----------------------------------------------------------------------------
(* Specifications of the driver.  Each draws the arguments its claims are  *)
(* about and gives the others their defaults.                              *)

Enter == \E outcome \in EnterOutcomes : ParaViewDriver_enter(outcome)
Exit == ParaViewDriver_exit

\* output paths of the two view prints
InitPrint == DriverInit(Cwds, MeshSrcs, OutFiletypes, CtorOutDirs)
WireframePaths ==
    \E file_out \in PrintNames, out_dir \in OutDirArgs :
        print_mesh_wireframe(file_out, out_dir, TRUE)
QualityPaths ==
    \E file_out \in PrintNames, out_dir \in OutDirArgs :
        print_quality(file_out, "", out_dir, FALSE, FALSE, {}, TRUE)

NextPrint == Enter \/ WireframePaths \/ QualityPaths \/ Exit
SpecPrint == InitPrint /\ [][NextPrint]_vars

\* measures, color map and visibility of the quality print
InitScene == DriverInit({<<SLASH, "w">>}, {<<"f">>}, OutFiletypes, {None})
QualityMeasures ==
    \E measure \in Kwargs :
        print_quality(None, "", None, FALSE, FALSE, measure, TRUE)
QualityColors ==
    \E preset \in PresetArgs, log_scale \in BOOLEAN, invert_colors \in BOOLEAN,
       export_ok \in BOOLEAN :
        print_quality(None, preset, None, log_scale, invert_colors, {},
                      export_ok)
GetQuality == \E measure_kwds \in Kwargs : get_quality(measure_kwds)

NextScene == Enter \/ QualityMeasures \/ QualityColors \/ GetQuality \/ Exit
SpecScene == InitScene /\ [][NextScene]_vars

\* the distribution plot
InitDist == DriverInit(Cwds, {<<SLASH, "m", SLASH, "f">>}, {None}, CtorOutDirs)
Distribution ==
    \E fmt \in Fmts, filename \in PlotNames, out_dir \in OutDirArgs,
       q \in {<<TRUE, {}>>, <<FALSE, {<<"quad", "Area">>}>>} :
        print_quality_distribution(q[1], fmt, filename, out_dir, q[2])

NextDist == Enter \/ Distribution \/ Exit
SpecDist == InitDist /\ [][NextDist]_vars

-----------------------------------------------------------------------------
(* `with IgnoreOutput(id_n):` step by step, as the process sees it *)

\* what descriptors 0..2 may refer to when the process starts
InitialFds == {StdFds,
               [n \in Fds |-> IF n <= 2 THEN "tty" ELSE CLOSED]}
IdNs == {1, 2}

InitFd ==
    /\ cwd = <<SLASH>>
    /\ drv = ParaViewDriver_init(<<"f">>, None, None)
    /\ eng = NoEngine
    /\ dirs = {<<SLASH>>}
    /\ fds \in InitialFds
    /\ phase = "new"
    /\ calls = 0
    /\ last = NoLast
    /\ scope = NoScope
    /\ inst = NoInst

\* IgnoreOutput(id_n): the constructor returns or raises
IgnoreOutput_new(id_n) ==
    /\ scope.state \in {"none", "left"}
    /\ LET io == IgnoreOutput_init(fds, id_n)
       IN  /\ fds' = io.fds
           /\ scope' = IF io.ok
                       THEN [state |-> "made", obj |-> io.obj,
                             before |-> fds[id_n], sink |-> "", how |-> "",
                             n |-> scope.n + 1]
                       ELSE [scope EXCEPT !.state = "failed"]
    /\ UNCHANGED <<cwd, drv, eng, dirs, phase, calls, last, inst>>

IgnoreOutput_entered ==
    /\ scope.state = "made"
    /\ fds' = IgnoreOutput_enter(fds, scope.obj)
    /\ scope' = [scope EXCEPT !.state = "active"]
    /\ UNCHANGED <<cwd, drv, eng, dirs, phase, calls, last, inst>>

\* the body writes to descriptor id_n (the engine's console errors)
BodyWrites ==
    /\ scope.state = "active"
    /\ scope' = [scope EXCEPT !.sink = fds[scope.obj.id_n]]
    /\ UNCHANGED <<cwd, drv, eng, dirs, fds, phase, calls, last, inst>>

\* the body returns or raises: the `with` statement calls __exit__
IgnoreOutput_left(how) ==
    /\ scope.state = "active"
    /\ fds' = IgnoreOutput_exit(fds, scope.obj)
    /\ scope' = [scope EXCEPT !.state = "left", !.how = how]
    /\ UNCHANGED <<cwd, drv, eng, dirs, phase, calls, last, inst>>

NewScope == \E id_n \in IdNs : IgnoreOutput_new(id_n)
LeaveScope == \E how \in {"return", "raise"} : IgnoreOutput_left(how)

NextFd == NewScope \/ IgnoreOutput_entered \/ BodyWrites \/ LeaveScope
SpecFd == InitFd /\ [][NextFd]_vars

-----------------------------------------------------------------------------
(* install.py, after the install script has run.  A candidate location is  *)
(* a lib directory: python is the version suffix of the python* directory  *)
(* found in it ("" when none is found), site the entries of that           *)
(* directory's site-packages (has_site tells whether it exists), libs      *)
(* whether the shared objects are in the lib directory.                    *)

MARKER == "vtk.py"

\* the files copied by lines 63-77, given the python* directory's suffix
SharedObjects(ver) ==
    <<"RemotingCore", "CommonMisc", "CommonCore", "WrappingPythonCore" \o ver,
      "FiltersProgrammable", "RemotingServerManager", "RemotingSettings",
      "RemotingApplication", "PVInSitu">>

LibFilename(file) == "libvtk" \o file \o "-pv5.10.so.1"

\* what a lib directory may hold
LocationKinds ==
    {[python |-> "", has_site |-> FALSE, site |-> {}, libs |-> l] :
        l \in BOOLEAN}
    \cup {[python |-> "3.9", has_site |-> FALSE, site |-> {}, libs |-> l] :
        l \in BOOLEAN}
    \cup {[python |-> "3.9", has_site |-> TRUE, site |-> e, libs |-> l] :
        e \in {{}, {"paraview"}, {MARKER, "paraview"}}, l \in BOOLEAN}

\* number of entries of paraview_locations
NLocations == 3

InitInstall ==
    /\ cwd = <<SLASH>>
    /\ drv = ParaViewDriver_init(<<"f">>, None, None)
    /\ eng = NoEngine
    /\ dirs = {<<SLASH>>}
    /\ fds = StdFds
    /\ phase = "new"
    /\ calls = 0
    /\ last = NoLast
    /\ scope = NoScope
    /\ inst \in [state : {"start"},
                 paraview_locations : [1..NLocations -> LocationKinds],
                 src_lib_dir : {0}, src_python_dir : {""},
                 site_copied : {{}}, libs_copied : {{}}]

\* isfile(join(src_python_dir, "site-packages", "vtk.py")) at location i; with
\* no python* directory the path is relative to the working directory, which
\* holds no site-packages
HasMarker(locs, i) ==
    locs[i].python # "" /\ locs[i].has_site /\ MARKER \in locs[i].site

\* lines 46-50: the location the loop ends on: it breaks at the first one
\* holding the marker, and otherwise runs to the end of the list
RECURSIVE SelectFrom(_, _)
SelectFrom(locs, i) ==
    IF HasMarker(locs, i) \/ i = Len(locs) THEN i ELSE SelectFrom(locs, i + 1)

find_source ==
    /\ inst.state = "start"
    /\ LET i == SelectFrom(inst.paraview_locations, 1)
       IN  inst' = [inst EXCEPT !.state = "selected", !.src_lib_dir = i,
                       !.src_python_dir = inst.paraview_locations[i].python]
    /\ UNCHANGED <<cwd, drv, eng, dirs, fds, phase, calls, last, scope>>

\* lines 56-61: scandir raises when the site-packages directory is missing
copy_site_packages ==
    /\ inst.state = "selected"
    /\ LET loc == inst.paraview_locations[inst.src_lib_dir]
       IN  IF inst.src_python_dir # "" /\ loc.has_site
           THEN inst' = [inst EXCEPT !.state = "site_copied",
                            !.site_copied =
                                {<<inst.src_lib_dir, e>> : e \in loc.site}]
           ELSE inst' = [inst EXCEPT !.state = "failed"]
    /\ UNCHANGED <<cwd, drv, eng, dirs, fds, phase, calls, last, scope>>

\* lines 63-77: copyfile raises at the first missing shared object
copy_shared_objects ==
    /\ inst.state = "site_copied"
    /\ LET loc == inst.paraview_locations[inst.src_lib_dir]
           names == SharedObjects(inst.src_python_dir)
       IN  IF loc.libs
           THEN inst' = [inst EXCEPT !.state = "done",
                            !.libs_copied =
                                {<<inst.src_lib_dir, LibFilename(names[k])>> :
                                    k \in 1..Len(names)}]
           ELSE inst' = [inst EXCEPT !.state = "failed"]
    /\ UNCHANGED <<cwd, drv, eng, dirs, fds, phase, calls, last, scope>>

NextInstall == find_source \/ copy_site_packages \/ copy_shared_objects
SpecInstall == InitInstall /\ [][NextInstall]_vars

-----------------------------------------------------------------------------
(* Claims *)

\* the non-empty argument, else the fallback
Given(arg, fallback) == IF arg.some /\ arg.val # <<>> THEN arg.val ELSE fallback

\* directory dir followed by a separator and a relative name
Under(dir, name) ==
    (IF dir[Len(dir)] = SLASH THEN dir ELSE dir \o <<SLASH>>) \o name

C2_DefaultDirIsInputDir ==
    (/\ last.op \in {"print_mesh_wireframe", "print_quality"}
     /\ ~drv.ctor_out_dir.some
     /\ ~last.out_dir.some)
        => last.reported = abspath(dirname(drv.mesh_flow_src), cwd)

\* C3: print_quality called with an out_dir and a name that is not absolute
\* exports into the directory it reports, _out_dir(out_dir).
C3_QualityWrittenIntoOutDir ==
    (/\ last.op = "print_quality"
     /\ Truthy(last.out_dir)
     /\ ~isabs(Given(last.file_out, print_filenames.quality)))
        => last.path = Under(last.reported,
                             Given(last.file_out, print_filenames.quality))
                       \o <<DOT>> \o drv.filetype

\* the measure keys a call passed
PassedKeys == {e[1] : e \in last.measure} \cap {"quad", "tri", "triangle"}
PassedValue(k) == (CHOOSE e \in last.measure : e[1] = k)[2]

\* C4: a print_quality or get_quality call passing only quad=X sets the
\* quadrilateral measure to X and keeps the triangular one; passing only
\* tri=X or only triangle=X sets the triangular measure to X and keeps the
\* quadrilateral one; passing neither keeps both; and the filter the call
\* builds has exactly the resulting measures.
C4_MeasureOverrides ==
    last.op \in {"print_quality", "get_quality"} =>
        /\ PassedKeys = {"quad"} =>
              /\ drv.measure_quad = PassedValue("quad")
              /\ drv.measure_triangle = last.before.tri
        /\ PassedKeys = {"tri"} =>
              /\ drv.measure_triangle = PassedValue("tri")
              /\ drv.measure_quad = last.before.quad
        /\ PassedKeys = {"triangle"} =>
              /\ drv.measure_triangle = PassedValue("triangle")
              /\ drv.measure_quad = last.before.quad
        /\ PassedKeys = {} =>
              /\ drv.measure_quad = last.before.quad
              /\ drv.measure_triangle = last.before.tri
        /\ eng.filter = [quad |-> drv.measure_quad,
                         tri |-> drv.measure_triangle]
        /\ last.filter = eng.filter

\* a call passing only tri=X on an instance whose quadrilateral measure an
\* earlier call has changed
C4_Witness ==
    /\ calls = MaxCalls
    /\ last.op \in {"print_quality", "get_quality"}
    /\ last.measure = {<<"tri", "Area">>}
    /\ last.before = [quad |-> "Edge Ratio", tri |-> "Edge Ratio"]
    /\ drv.measure_triangle = "Area"

\* os.path.splitext: the last component has a dot after a token that is no dot
HasExtension(name) ==
    LET base == basename(name)
    IN  \E i \in 2..Len(base) :
            base[i] = DOT /\ \E j \in 1..(i - 1) : base[j] # DOT
Extension(name) == SubSeq(name, rfind(name, DOT) + 1, Len(name))

\* C5: print_quality_distribution saves, for a filename with an extension,
\* under that filename in the format the extension names, whatever fmt is;
\* for a filename without an extension, as <filename>.<fmt> in format fmt;
\* for no filename, as mesh_quality_distribution_<measure_quad>.<fmt>.
C5_PlotFilenameAndFormat ==
    last.op = "print_quality_distribution" =>
        IF last.filename.some
        THEN IF HasExtension(last.filename.val)
             THEN /\ last.fname = last.filename.val
                  /\ last.save_fmt = Extension(last.filename.val)
             ELSE /\ last.fname = last.filename.val \o <<DOT>> \o last.fmt
                  /\ last.save_fmt = last.fmt
        ELSE /\ last.fname = <<"mesh_quality_distribution", "_",
                                drv.measure_quad, DOT>> \o last.fmt
             /\ last.save_fmt = last.fmt

\* C6: while an IgnoreOutput scope on descriptor id_n is active, id_n refers
\* to the null device and what is written to it goes there; once the scope
\* is left, by return or by exception, id_n refers to what it referred to
\* before the scope; for every scope of a sequence.
C6_SuppressedThenRestored ==
    /\ scope.state = "active" =>
          /\ fds[scope.obj.id_n] = DEVNULL
          /\ scope.sink \in {"", DEVNULL}
    /\ scope.state = "left" =>
          /\ fds[scope.obj.id_n] = scope.before
          /\ scope.sink \in {"", DEVNULL}

\* a later scope of a sequence, written to and left by an exception
C6_Witness ==
    /\ scope.state = "left"
    /\ scope.how = "raise"
    /\ scope.sink = DEVNULL
    /\ scope.n >= 3
    /\ fds[scope.obj.id_n] = "stderr"

\* C7: entry calls Connect, _DisableFirstRenderCameraReset, OpenDataFile and
\* GetActiveViewOrCreate in this order, and once the driver's scope is left
\* (normally, by an error of an operation, or by a failure of entry after
\* Connect) no connection is open.
C7_DisconnectedAfterScope ==
    /\ phase = "entered" => eng.log = EntryCalls
    /\ phase = "left" => ~eng.connected

\* C8: the installer copies only from the first candidate whose
\* site-packages holds vtk.py: every entry of its site-packages and the nine
\* shared objects; it copies nothing from a candidate without vtk.py.
Marked(i) ==
    LET loc == inst.paraview_locations[i]
    IN  loc.python # "" /\ loc.has_site /\ MARKER \in loc.site
C8_CopiesFromFirstMarked ==
    inst.state \in {"site_copied", "done", "failed"} =>
        /\ \A c \in inst.site_copied \cup inst.libs_copied :
              /\ Marked(c[1])
              /\ \A j \in 1..(c[1] - 1) : ~Marked(j)
        /\ inst.state = "done" =>
              /\ {c[2] : c \in inst.site_copied}
                     = inst.paraview_locations[inst.src_lib_dir].site
              /\ Cardinality(inst.libs_copied) = 9

\* C9: print_quality with invert_colors exports the inverted transfer
\* function and inverts it back: after every returned call of a sequence the
\* function is the preset applied (an even number of inversions) and no
\* quality data is shown.
AppliedPreset ==
    Preset(IF last.preset = "" THEN color_bar_preset_default ELSE last.preset)
C10_PlotDirectoryCreated ==
    last.op = "print_quality_distribution" => last.dir_ok

\* the descriptors the process holds open
OpenFds == {n \in Fds : fds[n] # CLOSED}

\* C11: every descriptor an IgnoreOutput object acquires (the null device it
\* opens, the duplicate of the target it saves) is released once its scope is
\* left: after any number of vector-format prints, each of which creates and
\* leaves one scope, the open descriptors are those open before the first
\* print.
C11_NoDescriptorLeft ==
    (last.op \in {"print_mesh_wireframe", "print_quality"}
     /\ drv.filetype \in VectorTypes)
        => OpenFds = {n \in Fds : StdFds[n] # CLOSED}

=============================================================================
